---- MODULE Spec2Model ----
(***************************************************************************)
(* Model of strict-null-check-migration-tools:                             *)
(*   - auto-add      (src/src/autoAdd.ts, tryAutoAddStrictNulls)           *)
(*   - the eligibility library (src/src/findCandidates.ts, lines 121-253)  *)
(*   - the error counter (src/unnamed/part_000)                            *)
(*   - visualize     (src/unnamed/part_001, summary)                       *)
(*   - import extraction (src/src/tsHelper.ts)                             *)
(* Spec is a run of auto-add, FairSpec the same run that keeps running,     *)
(* ScanSpec one scan for eligible files, SummarySpec a run of visualize.   *)
(***************************************************************************)
EXTENDS Integers, Sequences, FiniteSets, TLC

\* ------------------------------------------------------------------ bounds
\* Largest number of import edges of the project.
MaxImports == 3
\* Largest number of entries of "exclude" plus "files" in the tsconfig at start.
MaxConfigEntries == 1
\* Largest number of diagnostics the checker returns for one file.
MaxDiagnostics == 1
\* The counters of calls and of passes count up to this number and stay there;
\* a run over three files has at most four passes.
MaxCounted == 4

\* ------------------------------------------------------------------- paths
\* A path is [dir, base, ext]: the directory segments, the file name up to its
\* first dot, and the dot-separated suffixes ("a.stories.tsx" has ext
\* <<"stories", "tsx">>).
SrcRoot == <<"proj">>

TrackedBases == {"a", "b", "c"}

SourceFile(b) == [dir |-> SrcRoot, base |-> b, ext |-> <<"ts">>]

\* A declaration file of a package: TypeScript resolves imports to it, but it
\* is no file of the project.
Untracked == [dir |-> SrcRoot \o <<"node_modules", "lib">>, base |-> "index", ext |-> <<"d", "ts">>]

\* Every file on disk under the project root.
Disk == {SourceFile(b) : b \in TrackedBases} \cup {Untracked}

Last(s) == s[Len(s)]

Range(s) == {s[k] : k \in 1..Len(s)}

\* path.relative(srcRoot, file), for a file under srcRoot
PathRelative(root, p) == [p EXCEPT !.dir = SubSeq(p.dir, Len(root) + 1, Len(p.dir))]

\* `./${relativeFilePath}`
DotSlash(rel) == [rel EXCEPT !.dir = <<".">> \o rel.dir]

\* path.join(srcRoot, entry): joins and normalises away "." segments
PathJoin(root, e) == [e EXCEPT !.dir = root \o SelectSeq(e.dir, LAMBDA s : s # ".")]

\* The pattern "**/*"
GlobAll == [dir |-> <<"**">>, base |-> "*", ext |-> <<"*">>]

IsPrefix(s, t) == Len(s) <= Len(t) /\ SubSeq(t, 1, Len(s)) = s

GlobMatches(pat, p) ==
    /\ IF Len(pat.dir) > 0 /\ Last(pat.dir) = "**"
       THEN IsPrefix(SubSeq(pat.dir, 1, Len(pat.dir) - 1), p.dir)
       ELSE pat.dir = p.dir
    /\ pat.base = "*" \/ pat.base = p.base
    /\ pat.ext = <<"*">> \/ pat.ext = p.ext

\* glob(pattern): the files on disk the pattern matches
Glob(pat) == {p \in Disk : GlobMatches(pat, p)}

EndsWith(p, suffix) ==
    /\ Len(p.ext) >= Len(suffix)
    /\ SubSeq(p.ext, Len(p.ext) - Len(suffix) + 1, Len(p.ext)) = suffix

considerFile(file) ==
    /\ EndsWith(file, <<"ts">>) \/ EndsWith(file, <<"tsx">>)
    /\ ~EndsWith(file, <<"stories", "tsx">>)
    /\ "node_modules" \notin Range(file.dir)

\* glob(`${srcRoot}/**/*.ts?(x)`, ignore node_modules), filtered by considerFile
forEachFileInSrc ==
    {f \in Glob(PathJoin(SrcRoot, GlobAll)) :
        /\ Last(f.ext) \in {"ts", "tsx"}
        /\ "node_modules" \notin Range(f.dir)
        /\ considerFile(f)}

Files == forEachFileInSrc

\* The order in which strings sort (Array.prototype.sort) and glob lists files.
LexOrder ==
    << DotSlash(PathRelative(SrcRoot, SourceFile("a"))),
       DotSlash(PathRelative(SrcRoot, SourceFile("b"))),
       DotSlash(PathRelative(SrcRoot, SourceFile("c"))),
       DotSlash(PathRelative(SrcRoot, Untracked)) >>

\* The sorted array without duplicates of the entries of S
SortedSeq(S) == SelectSeq(LexOrder, LAMBDA e : e \in S)

\* forEachFileInSrc as the array glob returns
FileSeq ==
    SelectSeq([k \in 1..Len(LexOrder) |-> PathJoin(SrcRoot, LexOrder[k])],
              LAMBDA f : f \in Files)

\* ------------------------------------------------------------ the tsconfig
ExcludeEntries == {DotSlash(PathRelative(SrcRoot, f)) : f \in Files} \cup {GlobAll}

FilesEntries == {DotSlash(PathRelative(SrcRoot, f)) : f \in Disk}

SeqsUpTo(S, n) == UNION {[1..k -> S] : k \in 0..n}

\* The tsconfig.strictNullChecks.json files a run can start from
Configs ==
    {c \in [include : {<<>>, <<GlobAll>>},
            exclude : SeqsUpTo(ExcludeEntries, MaxConfigEntries),
            files : SeqsUpTo(FilesEntries, MaxConfigEntries)] :
        Len(c.exclude) + Len(c.files) <= MaxConfigEntries}

getCheckedFiles(tsconfig) ==
    LET included == {f \in UNION {Glob(PathJoin(SrcRoot, e)) : e \in Range(tsconfig.include)} :
                        considerFile(f)}
        excluded == UNION {Glob(PathJoin(SrcRoot, e)) : e \in Range(tsconfig.exclude)}
        listed == {PathJoin(SrcRoot, e) : e \in {x \in Range(tsconfig.files) : considerFile(x)}}
    IN (included \ excluded) \cup listed

IndexOf(s, e) ==
    IF e \in Range(s) THEN CHOOSE k \in 1..Len(s) : s[k] = e /\ \A j \in 1..(k - 1) : s[j] # e
    ELSE 0

RemoveAt(s, k) == SubSeq(s, 1, k - 1) \o SubSeq(s, k + 1, Len(s))

\* Mutant: the new entry replaces the "files" array instead of joining it.
addFileToConfig_Overwrite(tsconfig, relativeFilePath) ==
    LET path == DotSlash(relativeFilePath)
        excludeIndex == IndexOf(tsconfig.exclude, path)
    IN IF excludeIndex >= 1
       THEN [tsconfig EXCEPT !.exclude = RemoveAt(tsconfig.exclude, excludeIndex)]
       ELSE [tsconfig EXCEPT !.files = <<path>>]

addFileToConfig(tsconfig, relativeFilePath) ==
    LET path == DotSlash(relativeFilePath)
        excludeIndex == IndexOf(tsconfig.exclude, path)
    IN IF excludeIndex >= 1
       THEN [tsconfig EXCEPT !.exclude = RemoveAt(tsconfig.exclude, excludeIndex)]
       ELSE [tsconfig EXCEPT !.files = SortedSeq(Range(tsconfig.files) \cup {path})]

\* -------------------------------------------------------- the import graph
NumImports(g) == Cardinality({e \in Files \X Disk : e[2] \in g[e[1]]})

\* What getImportsForFile returns for each project file
ImportGraphs == {g \in [Files -> SUBSET Disk] : NumImports(g) <= MaxImports}

\* An import specifier as written in the source: [scheme, name, ext], "node:fs"
\* has scheme "node:", "./gone.js" has name "./gone" and ext <<"js">>.
\* The specifiers that resolve to no file: a source file that is gone, an asset
\* without a declaration, a builtin module without its types.
UnresolvedSpecifiers ==
    { [scheme |-> "", name |-> "./gone", ext |-> <<"js">>],
      [scheme |-> "", name |-> "./style", ext |-> <<"css">>],
      [scheme |-> "", name |-> "fs", ext |-> <<>>] }

Builtins ==
    { "assert", "buffer", "child_process", "cluster", "crypto", "dgram",
      "dns", "domain", "events", "fs", "http", "https", "net", "os",
      "path", "punycode", "querystring", "readline", "stream", "string_decoder",
      "tls", "tty", "url", "util", "v8", "vm", "zlib" }

isBuiltinModule(moduleName) ==
    (moduleName.ext = <<>> /\ moduleName.name \in Builtins) \/ moduleName.scheme = "node:"

isSourceFileExt(fileName) ==
    Len(fileName.ext) > 0 /\ Last(fileName.ext) \in {"ts", "tsx", "js", "jsx"}

NumUnresolved(u) == Cardinality({e \in Files \X UnresolvedSpecifiers : e[2] \in u[e[1]]})

\* The projects a scan is run on: for each project file the imports that
\* resolve and the specifiers that do not
Projects ==
    {p \in [resolved : ImportGraphs, unresolved : [Files -> SUBSET UnresolvedSpecifiers]] :
        NumImports(p.resolved) + NumUnresolved(p.unresolved) <= MaxImports}

VARIABLES
    imports,        \* the imports of every project file that resolve
    unresolved,     \* the import specifiers of every project file that do not resolve
    config,         \* the persisted tsconfig.strictNullChecks.json
    pc,             \* position of the running tool
    checkedFiles,   \* autoAdd: the in-memory set of checked files
    checkedAtStart, \* autoAdd: the set getCheckedFiles returned at start
    hasAddedFile,   \* autoAdd: the loop flag
    eligibleFiles,  \* autoAdd: the array of this pass
    i,              \* autoAdd: index into eligibleFiles (1-based)
    log,            \* autoAdd: the files tried, each with its error count
    importsTracker, \* the memo of the ImportTracker of the latest scan (file -> imports)
    extractions,    \* for every file, the calls of getImportsForFile made for it
    committingPasses, \* autoAdd: the passes that ended with hasAddedFile set
    sourceFileFound, \* autoAdd: whether the latest checkSourceFile found its file
    eligibleCycles, \* summary: the cycles listStrictNullCheckEligibleCycles returned
    nodes,          \* summary: the DependencyNode array (ids are 0-based, nodes[id + 1])
    remainingNodesToProcess, \* summary: the work list of a depth calculation (ids)
    currentDepth    \* summary: the layer a depth calculation is assigning

driverVars == <<checkedFiles, checkedAtStart, hasAddedFile, i, log,
                importsTracker, extractions, committingPasses, sourceFileFound>>

summaryVars == <<eligibleCycles, nodes, remainingNodesToProcess, currentDepth>>

vars == <<imports, unresolved, config, pc, eligibleFiles, driverVars, summaryVars>>

\* -------------------------------------------------------- import extraction
\* The outcome of getImportsForFile(file): it throws on the first unresolved
\* import that is no builtin and has a source extension, and returns the
\* resolved paths otherwise.
getImportsForFileWithCompilerAPI(file) ==
    IF \E imp \in unresolved[file] : ~isBuiltinModule(imp) /\ isSourceFileExt(imp)
    THEN [thrown |-> TRUE, result |-> {}]
    ELSE [thrown |-> FALSE, result |-> imports[file]]

getImportsForFile(file) == getImportsForFileWithCompilerAPI(file)

\* ImportTracker.getImports(file) on the memo tracker: the memo afterwards, the
\* outcome, and whether getImportsForFile was called
getImports(tracker, file) ==
    IF file \in DOMAIN tracker
    THEN [tracker |-> tracker, thrown |-> FALSE, result |-> tracker[file], called |-> FALSE]
    ELSE LET got == getImportsForFile(file)
         IN [tracker |-> IF got.thrown THEN tracker
                         ELSE [f \in DOMAIN tracker \cup {file} |->
                                  IF f = file THEN got.result ELSE tracker[f]],
             thrown |-> got.thrown,
             result |-> got.result,
             called |-> TRUE]

\* new ImportTracker(srcRoot)
NewImportTracker == [f \in {} |-> {}]

NoExtractions == [f \in Files |-> 0]

\* n + 1 on a counter that stops at MaxCounted
CountOneMore(n) == IF n < MaxCounted THEN n + 1 ELSE n

\* -------------------------------------------------------------- eligibility
\* Mutant: an import that imports the file back is not looked at.
hasUncheckedImport_SkipsMutual(file, checked) ==
    \E imp \in imports[file] :
        imp \notin checked /\ ~(imp \in Files /\ file \in imports[imp])

hasUncheckedImport(file, checked) == \E imp \in imports[file] : imp \notin checked

\* Mutant: files already in the checked set are not filtered out.
listStrictNullCheckEligibleFiles_NoCheckedFilter(checked) ==
    SelectSeq(FileSeq, LAMBDA file : ~hasUncheckedImport(file, checked))

listStrictNullCheckEligibleFiles(checked) ==
    SelectSeq(FileSeq, LAMBDA file : file \notin checked /\ ~hasUncheckedImport(file, checked))

\* ---------------------------------------------------------- the type checker
Severities == {"error", "warning"}

\* What TypeScriptChecker.checkSourceFile can return: the file is not in the
\* program, or its diagnostics
checkSourceFile(found, diagnostics) ==
    IF ~found
    THEN [hasErrors |-> TRUE, errors |-> <<"error">>]
    ELSE [hasErrors |-> \E k \in 1..Len(diagnostics) : diagnostics[k] = "error",
          errors |-> diagnostics]

TypeCheckResults ==
    {checkSourceFile(found, d) : found \in BOOLEAN, d \in SeqsUpTo(Severities, MaxDiagnostics)}

tryCheckingFile(result) == IF result.hasErrors THEN Len(result.errors) ELSE 0

\* The memo of the ImportTracker that listStrictNullCheckEligibleFiles(checked)
\* creates, when the filter has run: the callback returns before getImports
\* for a file of checked, and asks for every other file once.
ScanTracker(checked) == [file \in Files \ checked |-> imports[file]]

\* The calls of getImportsForFile for file f that one call of
\* listStrictNullCheckEligibleFiles(checked) makes
ScanCalls(checked, f) == IF f \in checked THEN 0 ELSE 1

\* ------------------------------------------------------- auto-add, the driver
Init ==
    /\ imports \in ImportGraphs
    /\ unresolved = [f \in Files |-> {}]
    /\ config \in Configs
    /\ pc = "start"
    /\ checkedFiles = {}
    /\ checkedAtStart = {}
    /\ hasAddedFile = TRUE
    /\ eligibleFiles = <<>>
    /\ i = 1
    /\ log = {}
    /\ importsTracker = NewImportTracker
    /\ extractions = NoExtractions
    /\ committingPasses = 0
    /\ sourceFileFound = TRUE
    /\ eligibleCycles = <<>>
    /\ nodes = <<>>
    /\ remainingNodesToProcess = <<>>
    /\ currentDepth = 0

\* autoAdd.ts 21-24
Start ==
    /\ pc = "start"
    /\ checkedFiles' = getCheckedFiles(config)
    /\ checkedAtStart' = getCheckedFiles(config)
    /\ hasAddedFile' = TRUE
    /\ pc' = "while"
    /\ UNCHANGED <<imports, unresolved, config, eligibleFiles, i, log, summaryVars,
                   importsTracker, extractions, committingPasses, sourceFileFound>>

\* Mutant: the pass does not reset hasAddedFile.
Scan_NoReset ==
    /\ pc = "while"
    /\ hasAddedFile
    /\ \A file \in Files \ checkedFiles : ~getImportsForFile(file).thrown
    /\ eligibleFiles' = listStrictNullCheckEligibleFiles(checkedFiles)
    /\ importsTracker' = ScanTracker(checkedFiles)
    /\ extractions' = [f \in Files |-> IF ScanCalls(checkedFiles, f) = 1
                                       THEN CountOneMore(extractions[f])
                                       ELSE extractions[f]]
    /\ i' = 1
    /\ pc' = "for"
    /\ UNCHANGED <<imports, unresolved, config, checkedFiles, checkedAtStart, hasAddedFile, log,
                   committingPasses, sourceFileFound, summaryVars>>

\* autoAdd.ts 28-34: the loop test and the scan of a pass. The run is of a
\* project whose imports all resolve (Init), so that no call of getImportsForFile
\* throws; a scan over an import that throws is ScanSpec.
Scan ==
    /\ pc = "while"
    /\ hasAddedFile
    /\ hasAddedFile' = FALSE
    /\ \A file \in Files \ checkedFiles : ~getImportsForFile(file).thrown
    /\ eligibleFiles' = listStrictNullCheckEligibleFiles(checkedFiles)
    /\ importsTracker' = ScanTracker(checkedFiles)
    /\ extractions' = [f \in Files |-> IF ScanCalls(checkedFiles, f) = 1
                                       THEN CountOneMore(extractions[f])
                                       ELSE extractions[f]]
    /\ i' = 1
    /\ pc' = "for"
    /\ UNCHANGED <<imports, unresolved, config, checkedFiles, checkedAtStart, log,
                   committingPasses, sourceFileFound, summaryVars>>

\* Mutant: the file tried is not added to checkedFiles.
TryFile_ForgetsFile ==
    /\ pc = "for"
    /\ i <= Len(eligibleFiles)
    /\ \E found \in BOOLEAN, diagnostics \in SeqsUpTo(Severities, MaxDiagnostics) :
        LET relativeFilePath == PathRelative(SrcRoot, eligibleFiles[i])
            result == checkSourceFile(found, diagnostics)
            errorCount == tryCheckingFile(result)
        IN /\ sourceFileFound' = found
           /\ IF errorCount = 0
              THEN /\ config' = addFileToConfig(config, relativeFilePath)
                   /\ hasAddedFile' = TRUE
              ELSE UNCHANGED <<config, hasAddedFile>>
           /\ log' = log \cup {[file |-> relativeFilePath, errorCount |-> errorCount]}
    /\ i' = i + 1
    /\ UNCHANGED <<imports, unresolved, pc, checkedFiles, checkedAtStart, eligibleFiles, summaryVars,
                   importsTracker, extractions, committingPasses>>

\* autoAdd.ts 35-59: one iteration of the for loop
TryFile ==
    /\ pc = "for"
    /\ i <= Len(eligibleFiles)
    /\ \E found \in BOOLEAN, diagnostics \in SeqsUpTo(Severities, MaxDiagnostics) :
        LET relativeFilePath == PathRelative(SrcRoot, eligibleFiles[i])
            result == checkSourceFile(found, diagnostics)
            errorCount == tryCheckingFile(result)
        IN /\ sourceFileFound' = found
           /\ IF errorCount = 0
              THEN /\ config' = addFileToConfig(config, relativeFilePath)
                   /\ hasAddedFile' = TRUE
              ELSE UNCHANGED <<config, hasAddedFile>>
           /\ log' = log \cup {[file |-> relativeFilePath, errorCount |-> errorCount]}
    /\ checkedFiles' = checkedFiles \cup {eligibleFiles[i]}
    /\ i' = i + 1
    /\ UNCHANGED <<imports, unresolved, pc, checkedAtStart, eligibleFiles, summaryVars,
                   importsTracker, extractions, committingPasses>>

\* autoAdd.ts 35, 60: the for loop ends
EndPass ==
    /\ pc = "for"
    /\ i > Len(eligibleFiles)
    /\ committingPasses' = IF hasAddedFile THEN CountOneMore(committingPasses)
                           ELSE committingPasses
    /\ pc' = "while"
    /\ UNCHANGED <<imports, unresolved, config, checkedFiles, checkedAtStart, hasAddedFile,
                   eligibleFiles, i, log, summaryVars,
                   importsTracker, extractions, sourceFileFound>>

\* autoAdd.ts 28, 61-62: the while loop exits
Finish ==
    /\ pc = "while"
    /\ ~hasAddedFile
    /\ pc' = "done"
    /\ UNCHANGED <<imports, unresolved, config, checkedFiles, checkedAtStart, hasAddedFile,
                   eligibleFiles, i, log, summaryVars,
                   importsTracker, extractions, committingPasses, sourceFileFound>>

Next == Start \/ Scan \/ TryFile \/ EndPass \/ Finish

Spec == Init /\ [][Next]_vars

FairSpec == Spec /\ WF_vars(Next)

\* ------------------------------- one scan, callback by callback (ScanSpec)
\* The first call of listStrictNullCheckEligibleFiles of a run, on any project
\* (its imports may fail to resolve) and a tsconfig that lists the checked files
\* in "files". eligibleFiles is the array the filter has built so far and i the
\* index of the file the callback is called on next.
ScanInit ==
    /\ \E p \in Projects : imports = p.resolved /\ unresolved = p.unresolved
    /\ \E checked \in SUBSET Files :
        /\ config = [include |-> <<>>, exclude |-> <<>>,
                     files |-> SortedSeq({DotSlash(PathRelative(SrcRoot, f)) : f \in checked})]
        /\ checkedFiles = getCheckedFiles(config)
        /\ checkedAtStart = getCheckedFiles(config)
    /\ pc = "filter"
    /\ hasAddedFile = FALSE
    /\ eligibleFiles = <<>>
    /\ i = 1
    /\ log = {}
    /\ importsTracker = NewImportTracker
    /\ extractions = NoExtractions
    /\ committingPasses = 0
    /\ sourceFileFound = TRUE
    /\ eligibleCycles = <<>>
    /\ nodes = <<>>
    /\ remainingNodesToProcess = <<>>
    /\ currentDepth = 0

\* findCandidates.ts 161-164: the callback returns false for a checked file
FilterSkipsChecked ==
    /\ pc = "filter"
    /\ i <= Len(FileSeq)
    /\ FileSeq[i] \in checkedFiles
    /\ i' = i + 1
    /\ UNCHANGED <<imports, unresolved, config, pc, eligibleFiles, checkedFiles, checkedAtStart,
                   hasAddedFile, log, importsTracker, extractions, committingPasses,
                   sourceFileFound, summaryVars>>

\* findCandidates.ts 161-166, 132-140: the callback asks the tracker for the
\* imports of the file and keeps the file iff none of them is unchecked
FilterFile ==
    /\ pc = "filter"
    /\ i <= Len(FileSeq)
    /\ FileSeq[i] \notin checkedFiles
    /\ LET file == FileSeq[i]
           got == getImports(importsTracker, file)
       IN /\ ~got.thrown
          /\ importsTracker' = got.tracker
          /\ extractions' = [extractions EXCEPT ![file] = IF got.called THEN CountOneMore(@) ELSE @]
          /\ eligibleFiles' = IF \E imp \in got.result : imp \notin checkedFiles
                              THEN eligibleFiles
                              ELSE Append(eligibleFiles, file)
    /\ i' = i + 1
    /\ UNCHANGED <<imports, unresolved, config, pc, checkedFiles, checkedAtStart,
                   hasAddedFile, log, committingPasses, sourceFileFound, summaryVars>>

\* tsHelper.ts 269-271, 370: getImportsForFile throws; nothing catches it in
\* getImports, hasUncheckedImport, the filter or tryAutoAddStrictNulls
FilterThrows ==
    /\ pc = "filter"
    /\ i <= Len(FileSeq)
    /\ FileSeq[i] \notin checkedFiles
    /\ LET file == FileSeq[i]
           got == getImports(importsTracker, file)
       IN /\ got.thrown
          /\ extractions' = [extractions EXCEPT ![file] = IF got.called THEN CountOneMore(@) ELSE @]
    /\ pc' = "thrown"
    /\ UNCHANGED <<imports, unresolved, config, eligibleFiles, i, checkedFiles, checkedAtStart,
                   hasAddedFile, log, importsTracker, committingPasses,
                   sourceFileFound, summaryVars>>

\* findCandidates.ts 161, 166: the filter has seen every file
FilterReturns ==
    /\ pc = "filter"
    /\ i > Len(FileSeq)
    /\ pc' = "returned"
    /\ UNCHANGED <<imports, unresolved, config, eligibleFiles, driverVars, summaryVars>>

ScanNext == FilterSkipsChecked \/ FilterFile \/ FilterThrows \/ FilterReturns

ScanSpec == ScanInit /\ [][ScanNext]_vars

\* --------------------------------------------------- strongly connected sets
RECURSIVE ImportedWithin(_, _)
\* The project files reached from the files of S by at most n further imports
ImportedWithin(S, n) ==
    IF n = 0 THEN S
    ELSE ImportedWithin(S \cup UNION {imports[f] \cap Files : f \in S}, n - 1)

\* For every project file, the project files it imports through one or more
\* imports
TransitiveImports ==
    [f \in Files |-> ImportedWithin(imports[f] \cap Files, Cardinality(Files))]

\* The strongly connected component of f, given the transitive imports
Component(reach, f) == {f} \cup {g \in reach[f] : f \in reach[g]}

\* ------------------------------------------------------------- findCycles
\* findCycles(srcRoot, files, tsconfigPath): the array of the strongly connected
\* components of the import graph. The components are listed in the order of
\* their first files; since the import graphs and the tsconfigs a run is drawn
\* from are closed under renaming the files, every component is the first entry
\* (id 0) for some input.
findCycles ==
    LET reach == TransitiveImports
        IsFirst(f) == \A k \in 1..Len(FileSeq) :
                        (FileSeq[k] \in Component(reach, f) /\ FileSeq[k] # f)
                            => \E j \in 1..(k - 1) : FileSeq[j] = f
        firsts == SelectSeq(FileSeq, IsFirst)
    IN [k \in 1..Len(firsts) |-> Component(reach, firsts[k])]

listStrictNullCheckEligibleCycles(checked) ==
    SelectSeq(findCycles, LAMBDA filesInCycle :
        /\ Cardinality(filesInCycle) > 1
        /\ ~(filesInCycle \subseteq checked)
        /\ \A file \in Files : ~hasUncheckedImport(file, checked))

\* ------------------------------------------------------ visualize, summary
NodeIds(ns) == 0..(Len(ns) - 1)

\* fileToNodeMap.has(file)
HasNode(ns, file) == \E k \in 1..Len(ns) : file \in ns[k].files

\* fileToNodeMap.get(file).id
NodeIdOf(ns, file) == (CHOOSE k \in 1..Len(ns) : file \in ns[k].files) - 1

\* part_001 63-102: the node of cycles[k]
makeNode(files, i0, checked, eligibleSet) ==
    LET isChecked == files \subseteq checked
    IN [id |-> i0,
        files |-> files,
        checked |-> isChecked,
        eligible |-> ~isChecked /\ (files \cap eligibleSet # {}),
        dependents |-> {},
        dependencies |-> {},
        dependentDepth |-> -1,
        dependencyDepth |-> -1]

\* Mutant: imports inside the node's own cycle are not skipped.
makeDependenciesLists_KeepsOwnCycle(ns) ==
    [k \in 1..Len(ns) |->
        [ns[k] EXCEPT !.dependencies =
            {id \in NodeIds(ns) :
                \E file \in ns[k].files : \E dependency \in imports[file] :
                    /\ HasNode(ns, dependency)
                    /\ NodeIdOf(ns, dependency) = id
                    /\ id # 0}]]

\* The dependencies arrays are modelled as sets: the code keeps them free of
\* duplicates and only membership is read.
makeDependenciesLists(ns) ==
    [k \in 1..Len(ns) |->
        [ns[k] EXCEPT !.dependencies =
            {id \in NodeIds(ns) :
                \E file \in ns[k].files : \E dependency \in imports[file] :
                    /\ dependency \notin ns[k].files
                    /\ HasNode(ns, dependency)
                    /\ NodeIdOf(ns, dependency) = id
                    /\ id # 0}]]

makeDependentsLists(ns) ==
    [k \in 1..Len(ns) |->
        [ns[k] EXCEPT !.dependents =
            {ns[j].id : j \in {j \in 1..Len(ns) :
                \E file \in ns[j].files : \E dependency \in imports[file] :
                    /\ dependency \notin ns[j].files
                    /\ dependency \in ns[k].files}}]]

SummaryInit ==
    /\ imports \in ImportGraphs
    /\ unresolved = [f \in Files |-> {}]
    /\ config \in Configs
    /\ pc = "summary"
    /\ checkedFiles = {}
    /\ checkedAtStart = {}
    /\ hasAddedFile = TRUE
    /\ eligibleFiles = <<>>
    /\ i = 1
    /\ log = {}
    /\ importsTracker = NewImportTracker
    /\ extractions = NoExtractions
    /\ committingPasses = 0
    /\ sourceFileFound = TRUE
    /\ eligibleCycles = <<>>
    /\ nodes = <<>>
    /\ remainingNodesToProcess = <<>>
    /\ currentDepth = 0

\* part_001 45-113: the checked and eligible files are read and the nodes built
BuildNodes ==
    /\ pc = "summary"
    /\ LET checked == getCheckedFiles(config)
           eligibleList == listStrictNullCheckEligibleFiles(checked)
           cycleList == listStrictNullCheckEligibleCycles(checked)
           eligibleSet == Range(eligibleList) \cup UNION Range(cycleList)
           cycles == findCycles
       IN /\ checkedFiles' = checked
          /\ eligibleFiles' = eligibleList
          /\ eligibleCycles' = cycleList
          /\ nodes' = [k \in 1..Len(cycles) |-> makeNode(cycles[k], k - 1, checked, eligibleSet)]
    /\ pc' = "nodes"
    /\ UNCHANGED <<imports, unresolved, config, checkedAtStart, hasAddedFile, i, log,
                   importsTracker, extractions, committingPasses, sourceFileFound,
                   remainingNodesToProcess, currentDepth>>

\* part_001 115-116, 183-184
MakeLists ==
    /\ pc = "nodes"
    /\ nodes' = makeDependentsLists(makeDependenciesLists(nodes))
    /\ remainingNodesToProcess' = [k \in 1..Len(nodes) |-> k - 1]
    /\ currentDepth' = 0
    /\ pc' = "dependencyDepth"
    /\ UNCHANGED <<imports, unresolved, config, eligibleFiles, driverVars, eligibleCycles>>

\* The nodes of the work list that have no dependency without a depth
ReadyByDependencies ==
    {id \in Range(remainingNodesToProcess) :
        \A dependencyId \in nodes[id + 1].dependencies :
            nodes[dependencyId + 1].dependencyDepth # -1}

\* Mutant: the layer counter is not incremented.
DependencyDepthStep_NoIncrement ==
    /\ pc = "dependencyDepth"
    /\ Len(remainingNodesToProcess) > 0
    /\ currentDepth <= Len(nodes)
    /\ remainingNodesToProcess' =
            SelectSeq(remainingNodesToProcess, LAMBDA id : id \notin ReadyByDependencies)
    /\ nodes' = [k \in 1..Len(nodes) |->
                    IF (k - 1) \in ReadyByDependencies
                    THEN [nodes[k] EXCEPT !.dependencyDepth = currentDepth]
                    ELSE nodes[k]]
    /\ UNCHANGED <<imports, unresolved, config, pc, eligibleFiles, driverVars, eligibleCycles, currentDepth>>

\* part_001 185-213: one iteration of the while loop of calculateDependencyDepth.
\* On a graph without cycles every iteration assigns a node, so currentDepth
\* stays below the number of nodes; the guard on it keeps a loop that never
\* ends finite.
DependencyDepthStep ==
    /\ pc = "dependencyDepth"
    /\ Len(remainingNodesToProcess) > 0
    /\ currentDepth <= Len(nodes)
    /\ remainingNodesToProcess' =
            SelectSeq(remainingNodesToProcess, LAMBDA id : id \notin ReadyByDependencies)
    /\ nodes' = [k \in 1..Len(nodes) |->
                    IF (k - 1) \in ReadyByDependencies
                    THEN [nodes[k] EXCEPT !.dependencyDepth = currentDepth]
                    ELSE nodes[k]]
    /\ currentDepth' = currentDepth + 1
    /\ UNCHANGED <<imports, unresolved, config, pc, eligibleFiles, driverVars, eligibleCycles>>

\* part_001 185, 217-218: calculateDependencyDepth returns, calculateDependentDepth starts
DependencyDepthDone ==
    /\ pc = "dependencyDepth"
    /\ Len(remainingNodesToProcess) = 0
    /\ remainingNodesToProcess' = [k \in 1..Len(nodes) |-> k - 1]
    /\ currentDepth' = 0
    /\ pc' = "dependentDepth"
    /\ UNCHANGED <<imports, unresolved, config, eligibleFiles, driverVars, eligibleCycles, nodes>>

\* The nodes of the work list that have no dependent without a depth
ReadyByDependents ==
    {id \in Range(remainingNodesToProcess) :
        \A dependentId \in nodes[id + 1].dependents :
            nodes[dependentId + 1].dependentDepth # -1}

\* part_001 219-247: one iteration of the while loop of calculateDependentDepth
DependentDepthStep ==
    /\ pc = "dependentDepth"
    /\ Len(remainingNodesToProcess) > 0
    /\ currentDepth <= Len(nodes)
    /\ remainingNodesToProcess' =
            SelectSeq(remainingNodesToProcess, LAMBDA id : id \notin ReadyByDependents)
    /\ nodes' = [k \in 1..Len(nodes) |->
                    IF (k - 1) \in ReadyByDependents
                    THEN [nodes[k] EXCEPT !.dependentDepth = currentDepth]
                    ELSE nodes[k]]
    /\ currentDepth' = currentDepth + 1
    /\ UNCHANGED <<imports, unresolved, config, pc, eligibleFiles, driverVars, eligibleCycles>>

\* part_001 219, 121-128: calculateDependentDepth returns and data.js is written
DependentDepthDone ==
    /\ pc = "dependentDepth"
    /\ Len(remainingNodesToProcess) = 0
    /\ pc' = "written"
    /\ UNCHANGED <<imports, unresolved, config, eligibleFiles, driverVars, summaryVars>>

SummaryNext ==
    \/ BuildNodes
    \/ MakeLists
    \/ DependencyDepthStep
    \/ DependencyDepthDone
    \/ DependentDepthStep
    \/ DependentDepthDone

SummarySpec == SummaryInit /\ [][SummaryNext]_vars

\* ------------------------------------------------------ what the log records
RelativeOf(f) == PathRelative(SrcRoot, f)

Tried(f) == \E l \in log : l.file = RelativeOf(f)

Passed(f) == [file |-> RelativeOf(f), errorCount |-> 0] \in log

Failed(f) == \E l \in log : l.file = RelativeOf(f) /\ l.errorCount > 0

\* The checked files as a new run would load them from the tsconfig on disk
persistedChecked == getCheckedFiles(config)

\* The driver is about to hand eligibleFiles[i] to the checker
Testing == pc = "for" /\ i <= Len(eligibleFiles)

\* ------------------------------------------------------------------- claims

\* C1: whenever the driver tests a file, every direct import of that file is
\* already migrated: it was in the checked set loaded at start, or it was
\* committed earlier in this run after the checker reported zero errors.
C1_TestedFileHasMigratedImports ==
    Testing =>
        \A imp \in imports[eligibleFiles[i]] : imp \in checkedAtStart \/ (imp \in Files /\ Passed(imp))

\* C2: the checked set against which eligibility is computed contains only
\* files loaded at start and files for which the checker returned zero errors.
C2_CheckedOnlyLoadedOrPassed ==
    \A f \in checkedFiles : f \in checkedAtStart \/ Passed(f)

\* C3: no step removes a file from the in-memory checked set nor from the
\* persisted set as getCheckedFiles reads it back.
C3_CheckedSetMonotonic ==
    [][/\ checkedFiles \subseteq checkedFiles'
       /\ getCheckedFiles(config) \subseteq getCheckedFiles(config')]_vars

\* C3 witness: a commit has happened and the file it committed reads back as
\* checked although it was not checked at start.
C3_Witness ==
    \E f \in Files : Passed(f) /\ f \in persistedChecked /\ f \notin checkedAtStart
                     /\ checkedAtStart # {}

C10_CyclesCommittedWhole ==
    pc = "while" =>
        LET reach == TransitiveImports
        IN \A f \in Files :
            Passed(f) => \A g \in Component(reach, f) : g \in checkedAtStart \/ Passed(g)

\* C10 amended: the driver commits one file at a time; no file of a multi-file
\* Component none of whose files was checked at start is ever tested or
\* committed.
C10_UncheckedCycleNeverMigrated ==
    pc # "start" =>
        LET reach == TransitiveImports
        IN \A f \in Files :
            (Cardinality(Component(reach, f)) > 1 /\ Component(reach, f) \cap checkedAtStart = {})
                => (~Tried(f) /\ f \notin checkedFiles /\ f \notin persistedChecked)

\* C10 witness: the run is over, it committed a file, and a cycle of files that
\* were all unchecked at start is left.
C10_Witness ==
    /\ pc = "done"
    /\ \E g \in Files : Passed(g)
    /\ LET reach == TransitiveImports
       IN \E f \in Files :
            Cardinality(Component(reach, f)) > 1 /\ Component(reach, f) \cap checkedAtStart = {}

\* Node n imports from node m: some file of n imports some file of m
DependsOn(n, m) == n.id # m.id /\ \E file \in n.files : imports[file] \cap m.files # {}

\* The policy of eligibility: not fully checked, and every Component it
\* depends on is fully checked
EligibleByPolicy(n) ==
    /\ ~(n.files \subseteq checkedFiles)
    /\ \A k \in 1..Len(nodes) : DependsOn(n, nodes[k]) => nodes[k].files \subseteq checkedFiles

\* No file imports itself or a file outside the project
OnlyProjectImports == \A f \in Files : imports[f] \subseteq Files \ {f}

\* C5: a Component is eligible iff it is not fully checked and every Component
\* it depends on is fully checked, for the eligible flag of the nodes of summary
\* and for the cycles listStrictNullCheckEligibleCycles returns. Stated for the
\* import graphs where every import is of another project file (which include
\* the graph A->B, B->A), so that only the policy for Components is at stake.
C5_EligibleIffPolicy ==
    (pc = "nodes" /\ OnlyProjectImports) =>
        \A k \in 1..Len(nodes) :
            /\ nodes[k].eligible <=> EligibleByPolicy(nodes[k])
            /\ Cardinality(nodes[k].files) > 1 =>
                   (nodes[k].files \in Range(eligibleCycles) <=> EligibleByPolicy(nodes[k]))

\* C6: a fully checked Component or file is never offered as eligible: no node
\* of summary is both checked and eligible, listStrictNullCheckEligibleFiles
\* returns no file of checkedFiles, and listStrictNullCheckEligibleCycles
\* returns no cycle all of whose files are in checkedFiles.
C6_CheckedNeverEligible ==
    pc # "summary" =>
        /\ \A k \in 1..Len(nodes) : nodes[k].checked => ~nodes[k].eligible
        /\ \A f \in Range(eligibleFiles) : f \notin checkedFiles
        /\ \A c \in Range(eligibleCycles) : ~(c \subseteq checkedFiles)

\* C6 witness: the nodes are built, a fully checked node is not eligible and
\* another node is eligible.
C6_Witness ==
    /\ pc = "nodes"
    /\ \E k \in 1..Len(nodes) : nodes[k].checked /\ ~nodes[k].eligible
    /\ \E k \in 1..Len(nodes) : nodes[k].eligible
    /\ Len(eligibleFiles) > 0

RECURSIVE DependenciesWithin(_, _)
\* The ids reached from the ids of S by at most n further dependencies edges
DependenciesWithin(S, n) ==
    IF n = 0 THEN S
    ELSE DependenciesWithin(S \cup UNION {nodes[id + 1].dependencies : id \in S}, n - 1)

ListsBuilt == pc \in {"dependencyDepth", "dependentDepth", "written"}

\* C7: the condensed graph is acyclic: no node reaches itself by following one
\* or more edges of the dependencies lists makeDependenciesLists built.
C7_CondensedGraphAcyclic ==
    ListsBuilt =>
        \A id \in NodeIds(nodes) :
            id \notin DependenciesWithin(nodes[id + 1].dependencies, Len(nodes))

\* C7 witness: the lists are built and a node that is an import cycle has a
\* dependency.
C7_Witness ==
    /\ ListsBuilt
    /\ \E k \in 1..Len(nodes) : Cardinality(nodes[k].files) > 1 /\ nodes[k].dependencies # {}

\* C8: after both depth calculations no node keeps the sentinel -1, every node
\* has a greater dependencyDepth than each node of its dependencies list and a
\* greater dependentDepth than each node of its dependents list.
C8_DepthConsistency ==
    pc = "written" =>
        \A k \in 1..Len(nodes) :
            /\ nodes[k].dependencyDepth # -1
            /\ nodes[k].dependentDepth # -1
            /\ \A d \in nodes[k].dependencies :
                   nodes[k].dependencyDepth > nodes[d + 1].dependencyDepth
            /\ \A e \in nodes[k].dependents :
                   nodes[k].dependentDepth > nodes[e + 1].dependentDepth

\* C8 witness: both calculations are over, and there are chains two edges long:
\* a node of dependencyDepth 2 and a node of dependentDepth 2.
C8_Witness ==
    /\ pc = "written"
    /\ \E k \in 1..Len(nodes) : nodes[k].dependencyDepth = 2
    /\ \E k \in 1..Len(nodes) : nodes[k].dependentDepth = 2

\* The Components of the import graph that are not fully in the set checked
UncheckedComponents(checked) ==
    LET reach == TransitiveImports
    IN {c \in {Component(reach, f) : f \in Files} : ~(c \subseteq checked)}

\* A pass has tried all its files and has committed at least one
CommittingPassEnds == pc = "for" /\ i > Len(eligibleFiles) /\ hasAddedFile

\* The in-memory checked set as it was when the pass under way scanned: the
\* files of eligibleFiles were not in it and nothing else was added since
CheckedAtScan == checkedFiles \ Range(eligibleFiles)

\* C11 as stated: a pass that commits a file ends with fewer Components that are
\* not fully checked (in the in-memory checkedFiles) than it started with, and
\* the passes that commit are at most as many as the Components.
C11_PassesBoundedByComponents ==
    /\ CommittingPassEnds =>
           Cardinality(UncheckedComponents(checkedFiles))
               < Cardinality(UncheckedComponents(CheckedAtScan))
    /\ committingPasses <= Cardinality(UncheckedComponents({}))

\* C11 amended: the driver works file by file: a pass that commits a file ends
\* with fewer files outside checkedFiles than it started with, and the passes
\* that commit are at most as many as the files committed, hence as the files.
C11_PassesBoundedByFiles ==
    /\ CommittingPassEnds =>
           Cardinality(Files \ checkedFiles) < Cardinality(Files \ CheckedAtScan)
    /\ committingPasses <= Cardinality({f \in Files : Passed(f)})
    /\ committingPasses <= Cardinality(Files)

\* C11 witness: the run is done after more committing passes than the import
\* graph has Components.
C11_Witness ==
    /\ pc = "done"
    /\ committingPasses > Cardinality(UncheckedComponents({}))

\* C12: an import of a file outside the project is no edge: when a pass scans,
\* every unchecked file all of whose imports of project files are checked is in
\* the frontier, whatever else it imports.
C12_UntrackedImportIsNoEdge ==
    pc = "for" =>
        \A f \in Files :
            (f \notin CheckedAtScan /\ (imports[f] \cap Files) \subseteq CheckedAtScan)
                => f \in Range(eligibleFiles)

\* C13: an import that does not resolve is never fatal: the scan of
\* listStrictNullCheckEligibleFiles is never left by an exception of
\* getImportsForFile.
C13_UnresolvedImportNeverFatal == pc # "thrown"

\* C14: a file's import of itself is no edge: when a pass scans, every unchecked
\* file whose imports other than itself are all checked is in the frontier.
C14_SelfImportIsNoEdge ==
    pc = "for" =>
        \A f \in Files :
            (f \notin CheckedAtScan /\ (imports[f] \ {f}) \subseteq CheckedAtScan)
                => f \in Range(eligibleFiles)

\* C15: a check that cannot be made (checkSourceFile does not find the source
\* file in its program) ends the run: the file is not recorded as a candidate
\* that failed, and no file is tested after it.
C15_NotFoundAbortsRun ==
    ~sourceFileFound =>
        /\ ~Failed(eligibleFiles[i - 1])
        /\ ~Testing
        /\ pc \notin {"while", "done"}

\* C16: in one run getImportsForFile is called at most once for every file.
C16_ExtractedOncePerFile == \A f \in Files : extractions[f] <= 1

\* C17: the lists are complete and inverse to each other: for any two nodes n
\* and m, m is in the dependencies of n iff n is in the dependents of m iff
\* some file of n imports some file of m, whatever the ids (0 included).
C17_ListsMutuallyInverse ==
    ListsBuilt =>
        \A n, m \in 1..Len(nodes) :
            n # m =>
                /\ (nodes[m].id \in nodes[n].dependencies) <=> DependsOn(nodes[n], nodes[m])
                /\ (nodes[n].id \in nodes[m].dependents) <=> DependsOn(nodes[n], nodes[m])

Max(S) == CHOOSE x \in S : \A y \in S : y <= x

RECURSIVE LongestDependencyChain(_, _)
\* The number of edges of the longest chain of imports between nodes that starts
\* at node id and has at most n edges
LongestDependencyChain(id, n) ==
    LET below == {m \in NodeIds(nodes) : DependsOn(nodes[id + 1], nodes[m + 1])}
    IN IF n = 0 \/ below = {} THEN 0
       ELSE 1 + Max({LongestDependencyChain(m, n - 1) : m \in below})

RECURSIVE LongestDependentChain(_, _)
\* The number of edges of the longest chain of imports between nodes that ends
\* at node id and has at most n edges
LongestDependentChain(id, n) ==
    LET above == {m \in NodeIds(nodes) : DependsOn(nodes[m + 1], nodes[id + 1])}
    IN IF n = 0 \/ above = {} THEN 0
       ELSE 1 + Max({LongestDependentChain(m, n - 1) : m \in above})

\* C18: when summary has written its data, the dependencyDepth of every node is
\* the length of the longest chain of imports between nodes that starts at it,
\* and its dependentDepth the length of the longest chain that ends at it.
C18_DepthIsLongestChain ==
    pc = "written" =>
        \A id \in NodeIds(nodes) :
            /\ nodes[id + 1].dependencyDepth = LongestDependencyChain(id, Len(nodes))
            /\ nodes[id + 1].dependentDepth = LongestDependentChain(id, Len(nodes))

\* The edges of the import graph that leave f: its imports of other files of the
\* project
DirectImports(f) == (imports[f] \cap Files) \ {f}

\* C19: when the driver is done, every tracked file that is not in the persisted
\* checked set and whose direct imports are all in it has been tested in this
\* run and has failed: none is left untested.
C19_LocalMaximum ==
    pc = "done" =>
        \A f \in Files :
            (f \notin persistedChecked /\ DirectImports(f) \subseteq persistedChecked)
                => Failed(f)

\* C20 as stated: while a pass is testing its files the persisted checked set
\* does not change: no step of the for loop changes what getCheckedFiles reads
\* from the tsconfig.
C20_TestingLeavesPersistedSet ==
    [][pc = "for" => getCheckedFiles(config') = getCheckedFiles(config)]_vars

\* C20 amended: there is no commit phase: the persisted checked set changes only
\* in the test of a file that reports zero errors, which writes the tsconfig
\* before the next file is tested, and then by that file alone.
C20_CommitsFileByFile ==
    [][getCheckedFiles(config') # getCheckedFiles(config) =>
          /\ Testing
          /\ [file |-> RelativeOf(eligibleFiles[i]), errorCount |-> 0] \in log'
          /\ getCheckedFiles(config') = getCheckedFiles(config) \cup {eligibleFiles[i]}]_vars

\* C20 witness: a pass is stopped between two of its files, and the persisted
\* set already holds a file this pass has tested.
C20_Witness ==
    /\ Testing
    /\ \E k \in 1..(i - 1) :
          /\ Passed(eligibleFiles[k])
          /\ eligibleFiles[k] \in persistedChecked
          /\ eligibleFiles[k] \notin checkedAtStart

\* C21: a commit reads back: whenever the test of a file reports zero errors,
\* getCheckedFiles on the tsconfig that addFileToConfig has written returns
\* that file, and every file it returned on the tsconfig before.
C21_CommitReadsBack ==
    [][(Testing /\ [file |-> RelativeOf(eligibleFiles[i]), errorCount |-> 0] \in log') =>
          /\ eligibleFiles[i] \in getCheckedFiles(config')
          /\ getCheckedFiles(config) \subseteq getCheckedFiles(config')]_vars

====
